---- MODULE Spec2Model ----
\* Model of the movie catalogue's two stores, StorageCsv (storage_csv.py) and
\* StorageJson (storage_json.py): the in-memory record set of a store
\* instance, the backing file it rewrites, and the status string each call
\* returns.
\*
\* Python values are records [type, v]: `type` is the Python type and `v` the
\* text str() gives for the value, as a tuple of one-character strings, so
\* that substring tests, lower() and the str() conversion of the csv writer
\* are computed rather than assumed.  A dict is [type |-> "dict", v |-> items]
\* with items the sequence of [k, val] pairs in insertion order.
EXTENDS Integers, Sequences, FiniteSets, TLC

VARIABLES kind, data, file, ret, writer

vars == <<kind, data, file, ret, writer>>

\* ------------------------------------------------------------------ bounds
\* Largest number of records a store instance holds in the model.
MaxMovies == 2

\* Largest number of records an instance holds when two instances share one
\* backing file.
MaxShared == 1

\* ------------------------------------------------------ string constants
\* "Empty Database..."
EMPTY_DATABASE ==
    <<"E","m","p","t","y"," ","D","a","t","a","b","a","s","e",".",".",".">>

\* "Movie already exists"
MOVIE_ALREADY_EXISTS ==
    <<"M","o","v","i","e"," ","a","l","r","e","a","d","y"," ","e","x","i",
      "s","t","s">>

\* " added to the database"
CSV_ADDED ==
    <<" ","a","d","d","e","d"," ","t","o"," ","t","h","e"," ","d","a","t",
      "a","b","a","s","e">>

\* " has been added to the database"
JSON_ADDED ==
    <<" ","h","a","s"," ","b","e","e","n"," ","a","d","d","e","d"," ","t",
      "o"," ","t","h","e"," ","d","a","t","a","b","a","s","e">>

\* " has been deleted from the database"
DELETED ==
    <<" ","h","a","s"," ","b","e","e","n"," ","d","e","l","e","t","e","d",
      " ","f","r","o","m"," ","t","h","e"," ","d","a","t","a","b","a","s",
      "e">>

\* " does not exist in the database"
NOT_IN_DATABASE ==
    <<" ","d","o","e","s"," ","n","o","t"," ","e","x","i","s","t"," ","i",
      "n"," ","t","h","e"," ","d","a","t","a","b","a","s","e">>

\* " has been updated"
CSV_UPDATED ==
    <<" ","h","a","s"," ","b","e","e","n"," ","u","p","d","a","t","e","d">>

\* " does not exist"
CSV_NOT_EXIST ==
    <<" ","d","o","e","s"," ","n","o","t"," ","e","x","i","s","t">>

\* "Note added to the movie '"
JSON_NOTE_PREFIX ==
    <<"N","o","t","e"," ","a","d","d","e","d"," ","t","o"," ","t","h","e",
      " ","m","o","v","i","e"," ","'">>

\* "' successfully. Now try to hover over the movie"
JSON_NOTE_SUFFIX ==
    <<"'"," ","s","u","c","c","e","s","s","f","u","l","l","y","."," ","N",
      "o","w"," ","t","r","y"," ","t","o"," ","h","o","v","e","r"," ","o",
      "v","e","r"," ","t","h","e"," ","m","o","v","i","e">>

\* "Movie does not exist or does not have an 'image-url' field."
JSON_NOT_UPDATED ==
    <<"M","o","v","i","e"," ","d","o","e","s"," ","n","o","t"," ","e","x",
      "i","s","t"," ","o","r"," ","d","o","e","s"," ","n","o","t"," ","h",
      "a","v","e"," ","a","n"," ","'","i","m","a","g","e","-","u","r","l",
      "'"," ","f","i","e","l","d",".">>

\* "No movies in the database."
NO_MOVIES ==
    <<"N","o"," ","m","o","v","i","e","s"," ","i","n"," ","t","h","e"," ",
      "d","a","t","a","b","a","s","e",".">>

\* "Title: "
TITLE_LABEL ==
    <<"T","i","t","l","e",":"," ">>

\* "Rating: "
RATING_LABEL ==
    <<"R","a","t","i","n","g",":"," ">>

\* "Year: "
YEAR_LABEL ==
    <<"Y","e","a","r",":"," ">>

\* The line feed that ends each line of the f-strings of execute_command.
NEWLINE == <<"\n">>

LowerChar(c) ==
    CASE c = "A" -> "a"
      [] c = "B" -> "b"
      [] c = "C" -> "c"
      [] c = "D" -> "d"
      [] c = "E" -> "e"
      [] c = "F" -> "f"
      [] c = "G" -> "g"
      [] c = "H" -> "h"
      [] c = "I" -> "i"
      [] c = "J" -> "j"
      [] c = "K" -> "k"
      [] c = "L" -> "l"
      [] c = "M" -> "m"
      [] c = "N" -> "n"
      [] c = "O" -> "o"
      [] c = "P" -> "p"
      [] c = "Q" -> "q"
      [] c = "R" -> "r"
      [] c = "S" -> "s"
      [] c = "T" -> "t"
      [] c = "U" -> "u"
      [] c = "V" -> "v"
      [] c = "W" -> "w"
      [] c = "X" -> "x"
      [] c = "Y" -> "y"
      [] c = "Z" -> "z"
      [] OTHER -> c

\* ---------------------------------------------------------- Python values
PyStr(s) == [type |-> "str", v |-> s]

PyInt(s) == [type |-> "int", v |-> s]

PyFloat(s) == [type |-> "float", v |-> s]

\* str(x): the text of the value, as a str.
Str(x) == PyStr(x.v)

\* s.lower()
Lower(s) == PyStr([i \in 1..Len(s.v) |-> LowerChar(s.v[i])])

\* a in b, for two texts: a is a contiguous part of b.
IsSubstring(a, b) ==
    \E i \in 0..(Len(b) - Len(a)) : SubSeq(b, i + 1, i + Len(a)) = a

Range(s) == {s[i] : i \in 1..Len(s)}

\* ----------------------------------------------------- dict (ordered map)
PyDict(items) == [type |-> "dict", v |-> items]

DictKeys(items) == {items[i].k : i \in 1..Len(items)}

DictGet(items, key) ==
    items[CHOOSE i \in 1..Len(items) : items[i].k = key].val

\* d[key] = val: an existing key keeps its place, a new key goes last.
DictSet(items, key, val) ==
    IF key \in DictKeys(items)
    THEN [i \in 1..Len(items) |->
            IF items[i].k = key THEN [k |-> key, val |-> val] ELSE items[i]]
    ELSE Append(items, [k |-> key, val |-> val])

\* The sequence s without its element at index n.
RemoveAt(s, n) == SubSeq(s, 1, n - 1) \o SubSeq(s, n + 1, Len(s))

\* x in container: substring test on a str, key test on a dict.
In(x, container) ==
    IF container.type = "str"
    THEN IsSubstring(x.v, container.v)
    ELSE x \in DictKeys(container.v)

\* A record (a dict with string keys) with rec[name] = val set.
SetField(rec, name, val) ==
    [x \in (DOMAIN rec) \cup {name} |-> IF x = name THEN val ELSE rec[x]]

\* ------------------------------------------------------------- StorageCsv
\* self.header
HEADER == <<"title", "year", "rating", "poster", "notes">>

\* csv.DictWriter(fieldnames=self.header): writeheader(), writerows(data).
\* A cell is str() of the field's value; a field the record lacks is written
\* as the empty text.
CsvFileWrite(self_data) ==
    [header |-> HEADER,
     rows |-> [i \in 1..Len(self_data) |->
                [j \in 1..Len(HEADER) |->
                    IF HEADER[j] \in DOMAIN self_data[i]
                    THEN Str(self_data[i][HEADER[j]]).v
                    ELSE <<>>]]]

\* csv.DictReader: one dict per data row, keyed by the file's header line,
\* every value a str.
CsvFileRead(f) ==
    [i \in 1..Len(f.rows) |->
        [name \in Range(f.header) |->
            PyStr(f.rows[i][CHOOSE j \in 1..Len(f.header) : f.header[j] = name])]]

\* The loop of list_movies over the first n records of self.data.
RECURSIVE CsvProject(_, _)
CsvProject(self_data, n) ==
    IF n = 0
    THEN <<>>
    ELSE DictSet(CsvProject(self_data, n - 1), self_data[n].title,
                 [year |-> self_data[n].year,
                  rating |-> self_data[n].rating,
                  poster |-> self_data[n].poster])

\* Mutant of list_movies: the projection also carries the notes field.
StorageCsv_list_movies_notes(self_data) ==
    IF self_data = <<>>
    THEN PyStr(EMPTY_DATABASE)
    ELSE PyDict([n \in 1..Len(CsvProject(self_data, Len(self_data))) |->
            LET item == CsvProject(self_data, Len(self_data))[n]
                last == CHOOSE i \in 1..Len(self_data) :
                           /\ self_data[i].title = item.k
                           /\ \A j \in (i + 1)..Len(self_data) :
                                 self_data[j].title # item.k
            IN  IF "notes" \in DOMAIN self_data[last]
                THEN [k |-> item.k,
                      val |-> SetField(item.val, "notes", self_data[last].notes)]
                ELSE item])

StorageCsv_list_movies(self_data) ==
    LET dictionary == CsvProject(self_data, Len(self_data))
    IN  IF dictionary = <<>>
        THEN PyStr(EMPTY_DATABASE)
        ELSE PyDict(dictionary)

\* Mutant of add_movie: the rating is stored as the year and the year as the
\* rating.
StorageCsv_add_movie_swapped(self_data, f, title, year, rating, poster) ==
    LET movie_data == StorageCsv_list_movies(self_data)
        movie == [title |-> title, year |-> rating,
                  rating |-> year, poster |-> poster]
        appended == Append(self_data, movie)
    IN  IF In(title, movie_data)
        THEN [data |-> self_data, file |-> f,
              result |-> PyStr(MOVIE_ALREADY_EXISTS)]
        ELSE [data |-> appended, file |-> CsvFileWrite(appended),
              result |-> PyStr(title.v \o CSV_ADDED)]

\* Mutant of add_movie: the file is opened for appending and only the new
\* record is written to it.
StorageCsv_add_movie_appended(self_data, f, title, year, rating, poster) ==
    LET movie_data == StorageCsv_list_movies(self_data)
        movie == [title |-> title, year |-> year,
                  rating |-> rating, poster |-> poster]
        appended == Append(self_data, movie)
    IN  IF In(title, movie_data)
        THEN [data |-> self_data, file |-> f,
              result |-> PyStr(MOVIE_ALREADY_EXISTS)]
        ELSE [data |-> appended,
              file |-> [header |-> f.header,
                        rows |-> f.rows \o CsvFileWrite(<<movie>>).rows],
              result |-> PyStr(title.v \o CSV_ADDED)]

\* Mutant of add_movie: no test for a record with the same title.
StorageCsv_add_movie_unchecked(self_data, f, title, year, rating, poster) ==
    LET movie == [title |-> title, year |-> year,
                  rating |-> rating, poster |-> poster]
        appended == Append(self_data, movie)
    IN  [data |-> appended, file |-> CsvFileWrite(appended),
         result |-> PyStr(title.v \o CSV_ADDED)]

StorageCsv_add_movie(self_data, f, title, year, rating, poster) ==
    LET movie_data == StorageCsv_list_movies(self_data)
        movie == [title |-> title, year |-> year,
                  rating |-> rating, poster |-> poster]
        appended == Append(self_data, movie)
    IN  IF In(title, movie_data)
        THEN [data |-> self_data, file |-> f,
              result |-> PyStr(MOVIE_ALREADY_EXISTS)]
        ELSE [data |-> appended, file |-> CsvFileWrite(appended),
              result |-> PyStr(title.v \o CSV_ADDED)]

\* Mutant of delete_movie: the not-found status does not carry the title.
StorageCsv_delete_movie_untitled(self_data, f, title) ==
    LET hits == {i \in 1..Len(self_data) : title = self_data[i].title}
    IN  IF hits = {}
        THEN [data |-> self_data, file |-> f,
              result |-> PyStr(NOT_IN_DATABASE)]
        ELSE LET first == CHOOSE i \in hits : \A j \in hits : i <= j
                 removed == RemoveAt(self_data, first)
             IN  [data |-> removed, file |-> CsvFileWrite(removed),
                  result |-> PyStr(title.v \o DELETED)]

StorageCsv_delete_movie(self_data, f, title) ==
    LET hits == {i \in 1..Len(self_data) : title = self_data[i].title}
    IN  IF hits = {}
        THEN [data |-> self_data, file |-> f,
              result |-> PyStr(title.v \o NOT_IN_DATABASE)]
        ELSE LET first == CHOOSE i \in hits : \A j \in hits : i <= j
                 movie == self_data[first]
                 \* list.remove(movie): the first element equal to movie
                 at == CHOOSE i \in 1..Len(self_data) :
                          /\ self_data[i] = movie
                          /\ \A j \in 1..(i - 1) : self_data[j] # movie
                 removed == RemoveAt(self_data, at)
             IN  [data |-> removed, file |-> CsvFileWrite(removed),
                  result |-> PyStr(title.v \o DELETED)]

\* Mutant of update_movie: titles are matched ignoring case, as the JSON
\* store matches them.
StorageCsv_update_movie_anycase(self_data, f, title, notes) ==
    LET updated == [i \in 1..Len(self_data) |->
                      IF Lower(title) = Lower(self_data[i].title)
                      THEN SetField(self_data[i], "notes", notes)
                      ELSE self_data[i]]
    IN  [data |-> updated, file |-> CsvFileWrite(updated),
         result |-> IF \E i \in 1..Len(updated) :
                          Lower(updated[i].title) = Lower(title)
                    THEN PyStr(title.v \o CSV_UPDATED)
                    ELSE PyStr(title.v \o CSV_NOT_EXIST)]

StorageCsv_update_movie(self_data, f, title, notes) ==
    LET updated == [i \in 1..Len(self_data) |->
                      IF title = self_data[i].title
                      THEN SetField(self_data[i], "notes", notes)
                      ELSE self_data[i]]
    IN  [data |-> updated, file |-> CsvFileWrite(updated),
         result |-> IF \E i \in 1..Len(updated) : updated[i].title = title
                    THEN PyStr(title.v \o CSV_UPDATED)
                    ELSE PyStr(title.v \o CSV_NOT_EXIST)]

\* ------------------------------------------------------------ StorageJson
\* json.dump of one value: a str is a string token, an int or a float a
\* number token holding its text.
JsonDumpValue(x) ==
    IF x.type = "str"
    THEN [tok |-> "string", v |-> x.v]
    ELSE [tok |-> "number", v |-> x.v]

\* json.load of one token: a number with a fraction or an exponent is a
\* float, any other number an int.
JsonLoadValue(t) ==
    IF t.tok = "string"
    THEN PyStr(t.v)
    ELSE IF \E i \in 1..Len(t.v) : t.v[i] \in {".", "e", "E"}
         THEN PyFloat(t.v)
         ELSE PyInt(t.v)

\* json.dump(self.data, fileobj): the document, members in dict order.
JsonDump(self_data) ==
    [i \in 1..Len(self_data) |->
        [k |-> self_data[i].k.v,
         val |-> [name \in DOMAIN self_data[i].val |->
                    JsonDumpValue(self_data[i].val[name])]]]

RECURSIVE JsonLoadMembers(_, _)
JsonLoadMembers(doc, n) ==
    IF n = 0
    THEN <<>>
    ELSE DictSet(JsonLoadMembers(doc, n - 1), PyStr(doc[n].k),
                 [name \in DOMAIN doc[n].val |-> JsonLoadValue(doc[n].val[name])])

\* json.load(fileobj)
JsonLoad(doc) == JsonLoadMembers(doc, Len(doc))

StorageJson_list_movies(self_data) == PyDict(self_data)

\* Mutant of add_movie: no test for an existing title, the record is
\* assigned and the document written in every case.
StorageJson_add_movie_overwrite(self_data, f, title, year, rating, poster) ==
    LET inserted ==
            DictSet(self_data, title,
                    [name \in {"year", "rating", "image-url"} |->
                       CASE name = "year" -> year
                         [] name = "rating" -> rating
                         [] name = "image-url" -> poster])
    IN  [data |-> inserted, file |-> JsonDump(inserted),
         result |-> PyStr(title.v \o JSON_ADDED)]

StorageJson_add_movie(self_data, f, title, year, rating, poster) ==
    IF title \in DictKeys(self_data)
    THEN [data |-> self_data, file |-> f,
          result |-> PyStr(MOVIE_ALREADY_EXISTS)]
    ELSE LET inserted ==
                 DictSet(self_data, title,
                         [name \in {"year", "rating", "image-url"} |->
                            CASE name = "year" -> year
                              [] name = "rating" -> rating
                              [] name = "image-url" -> poster])
         IN  [data |-> inserted, file |-> JsonDump(inserted),
              result |-> PyStr(title.v \o JSON_ADDED)]

StorageJson_delete_movie(self_data, f, title) ==
    LET hits == {i \in 1..Len(self_data) :
                    Lower(title) = Lower(self_data[i].k)}
    IN  IF hits = {}
        THEN [data |-> self_data, file |-> f,
              result |-> PyStr(title.v \o NOT_IN_DATABASE)]
        ELSE LET first == CHOOSE i \in hits : \A j \in hits : i <= j
                 removed == RemoveAt(self_data, first)
             IN  [data |-> removed, file |-> JsonDump(removed),
                  result |-> PyStr(title.v \o DELETED)]

\* Mutant of update_movie: no test for the 'image-url' field.
StorageJson_update_movie_noguard(self_data, f, title, notes) ==
    LET hits == {i \in 1..Len(self_data) :
                    Lower(title) = Lower(self_data[i].k)}
    IN  IF hits = {}
        THEN [data |-> self_data, file |-> f,
              result |-> PyStr(JSON_NOT_UPDATED)]
        ELSE LET first == CHOOSE i \in hits : \A j \in hits : i <= j
                 movie_title == self_data[first].k
                 noted == DictSet(self_data, movie_title,
                                  SetField(self_data[first].val, "note", notes))
             IN  [data |-> noted, file |-> JsonDump(noted),
                  result |-> PyStr(JSON_NOTE_PREFIX \o movie_title.v
                                   \o JSON_NOTE_SUFFIX)]

StorageJson_update_movie(self_data, f, title, notes) ==
    LET hits == {i \in 1..Len(self_data) :
                    /\ Lower(title) = Lower(self_data[i].k)
                    /\ "image-url" \in DOMAIN self_data[i].val}
    IN  IF hits = {}
        THEN [data |-> self_data, file |-> f,
              result |-> PyStr(JSON_NOT_UPDATED)]
        ELSE LET first == CHOOSE i \in hits : \A j \in hits : i <= j
                 movie_title == self_data[first].k
                 noted == DictSet(self_data, movie_title,
                                  SetField(self_data[first].val, "note", notes))
             IN  [data |-> noted, file |-> JsonDump(noted),
                  result |-> PyStr(JSON_NOTE_PREFIX \o movie_title.v
                                   \o JSON_NOTE_SUFFIX)]

\* list_movies() of a store of class k whose self.data is d.
ListMovies(k, d) ==
    IF k = "csv" THEN StorageCsv_list_movies(d) ELSE StorageJson_list_movies(d)

\* --------------------------------------------------------------- MovieApp
\* A raised exception, as the value the call ends with.
Raised(name) == [type |-> name, v |-> <<>>]

\* _command_list_movies() over the value movies that
\* self._storage.list_movies() returned: movies.items() needs a dict, and
\* info["rating"], info["year"] need the keys.
MovieApp_command_list_movies(movies) ==
    IF movies.type # "dict"
    THEN Raised("AttributeError")
    ELSE IF \E n \in 1..Len(movies.v) :
               ~({"rating", "year"} \subseteq DOMAIN movies.v[n].val)
         THEN Raised("KeyError")
         ELSE [type |-> "list",
               v |-> [n \in 1..Len(movies.v) |->
                        [Title |-> movies.v[n].k,
                         Rating |-> movies.v[n].val["rating"],
                         Year |-> movies.v[n].val["year"]]]]

\* movie_result after the first n movies of the list.
RECURSIVE MovieResult(_, _)
MovieResult(movies_list, n) ==
    IF n = 0
    THEN <<>>
    ELSE MovieResult(movies_list, n - 1)
           \o TITLE_LABEL \o Str(movies_list[n].Title).v \o NEWLINE
           \o RATING_LABEL \o Str(movies_list[n].Rating).v \o NEWLINE
           \o YEAR_LABEL \o Str(movies_list[n].Year).v \o NEWLINE \o NEWLINE

\* execute_command("1") over the value movies that
\* self._storage.list_movies() returned.
MovieApp_execute_command_1(movies) ==
    LET listed == MovieApp_command_list_movies(movies)
    IN  IF listed.type # "list"
        THEN listed
        ELSE IF listed.v # <<>>
             THEN PyStr(MovieResult(listed.v, Len(listed.v)))
             ELSE PyStr(NO_MOVIES)

\* ----------------------------------------------------------------- inputs
\* Titles the calls are made with: "Up", "up", "Down", "" and "Empty".
T_Up == PyStr(<<"U", "p">>)

T_up == PyStr(<<"u", "p">>)

T_Down == PyStr(<<"D", "o", "w", "n">>)

T_Blank == PyStr(<<>>)

T_Empty == PyStr(<<"E", "m", "p", "t", "y">>)

Titles == {T_Up, T_up, T_Down, T_Blank, T_Empty}

\* (year, rating, poster) as the menu passes them (a str, a float, a str) and
\* as a direct caller may (an int year).
Payload1 == <<PyStr(<<"2", "0", "0", "9">>), PyFloat(<<"8", ".", "2">>),
              PyStr(<<"u", "r", "l", "1">>)>>

Payload2 == <<PyInt(<<"1", "9", "9", "9">>), PyFloat(<<"7", ".", "5">>),
              PyStr(<<"u", "r", "l", "2">>)>>

Payloads == {Payload1, Payload2}

N_great == PyStr(<<"g", "r", "e", "a", "t">>)

Notes == {N_great}

\* Record sets the backing file holds when the store is constructed.
CsvMovie(title, payload) ==
    [title |-> title, year |-> payload[1], rating |-> payload[2],
     poster |-> payload[3]]

CsvInitFiles ==
    {CsvFileWrite(d) : d \in
        {<<>>,
         <<CsvMovie(T_Up, Payload1)>>,
         <<SetField(CsvMovie(T_Down, Payload2), "notes", N_great),
           CsvMovie(T_up, Payload1)>>}}

JsonMovie(title, payload) ==
    [k |-> title,
     val |-> [name \in {"year", "rating", "image-url"} |->
                CASE name = "year" -> payload[1]
                  [] name = "rating" -> payload[2]
                  [] name = "image-url" -> payload[3]]]

\* The third document has a member without an image-url.
JsonInitFiles ==
    {JsonDump(d) : d \in
        {<<>>,
         <<JsonMovie(T_Up, Payload2)>>,
         <<[k |-> T_up,
            val |-> [name \in {"year", "rating"} |->
                       IF name = "year" THEN Payload1[1] ELSE Payload1[2]]],
           [k |-> T_Up,
            val |-> SetField(JsonMovie(T_Up, Payload1).val, "note", N_great)]>>}}

\* ------------------------------------------------------------ state machine
\* kind: the class of the store ("csv" for StorageCsv, "json" for StorageJson)
\* data[i]: self.data of store instance i
\* file: the content of the backing file at file_path
\* ret: the last call made and the value it returned
\* writer: the instance whose open(file_path, "w") ran last, "-" while no
\*         instance has written the file
NoCall == [op |-> "__init__", inst |-> "-", args |-> <<>>, result |-> PyStr(<<>>)]

\* StorageCsv(file_path) / StorageJson(file_path) for every instance in I.
InitWith(I) ==
    /\ kind \in {"csv", "json"}
    /\ file \in (IF kind = "csv" THEN CsvInitFiles ELSE JsonInitFiles)
    /\ data = [i \in I |-> IF kind = "csv" THEN CsvFileRead(file) ELSE JsonLoad(file)]
    /\ ret = NoCall
    /\ writer = "-"

Init == InitWith({"A"})

\* Whether the call reached its open(file_path, "w"): add_movie and
\* delete_movie write exactly when they change self.data, update_movie of the
\* CSV store writes in every call and update_movie of the JSON store when it
\* found a record to annotate.
FileWritten(k, op, before, out) ==
    IF op = "update_movie"
    THEN k = "csv" \/ out.result # PyStr(JSON_NOT_UPDATED)
    ELSE out.data # before

\* The effect of a call on instance i whose outcome is out.
Apply(i, op, args, out) ==
    /\ Len(out.data) <= MaxMovies
    /\ data' = [data EXCEPT ![i] = out.data]
    /\ file' = out.file
    /\ writer' = IF FileWritten(kind, op, data[i], out) THEN i ELSE writer
    /\ ret' = [op |-> op, inst |-> i, args |-> args, result |-> out.result]
    /\ UNCHANGED kind

CsvAdd(i) ==
    /\ kind = "csv"
    /\ \E title \in Titles, p \in Payloads :
          Apply(i, "add_movie", <<title, p[1], p[2], p[3]>>,
                StorageCsv_add_movie(data[i], file, title, p[1], p[2], p[3]))

CsvDelete(i) ==
    /\ kind = "csv"
    /\ \E title \in Titles :
          Apply(i, "delete_movie", <<title>>,
                StorageCsv_delete_movie(data[i], file, title))

CsvUpdate(i) ==
    /\ kind = "csv"
    /\ \E title \in Titles, notes \in Notes :
          Apply(i, "update_movie", <<title, notes>>,
                StorageCsv_update_movie(data[i], file, title, notes))

JsonAdd(i) ==
    /\ kind = "json"
    /\ \E title \in Titles, p \in Payloads :
          Apply(i, "add_movie", <<title, p[1], p[2], p[3]>>,
                StorageJson_add_movie(data[i], file, title, p[1], p[2], p[3]))

JsonDelete(i) ==
    /\ kind = "json"
    /\ \E title \in Titles :
          Apply(i, "delete_movie", <<title>>,
                StorageJson_delete_movie(data[i], file, title))

JsonUpdate(i) ==
    /\ kind = "json"
    /\ \E title \in Titles, notes \in Notes :
          Apply(i, "update_movie", <<title, notes>>,
                StorageJson_update_movie(data[i], file, title, notes))

\* Command "1" of the menu, on the app whose storage is instance i.
ListCommand(i) ==
    /\ ret' = [op |-> "execute_command", inst |-> i,
               args |-> <<PyStr(<<"1">>)>>,
               result |-> MovieApp_execute_command_1(ListMovies(kind, data[i]))]
    /\ UNCHANGED <<kind, data, file, writer>>

Next ==
    \/ \E i \in DOMAIN data : CsvAdd(i)
    \/ \E i \in DOMAIN data : CsvDelete(i)
    \/ \E i \in DOMAIN data : CsvUpdate(i)
    \/ \E i \in DOMAIN data : JsonAdd(i)
    \/ \E i \in DOMAIN data : JsonDelete(i)
    \/ \E i \in DOMAIN data : JsonUpdate(i)
    \/ \E i \in DOMAIN data : ListCommand(i)

Spec == Init /\ [][Next]_vars

\* ------------------------------------------------- vocabulary of the claims
\* The titles of the records of d, in order.
TitleSeq(k, d) == [i \in 1..Len(d) |-> IF k = "csv" THEN d[i].title ELSE d[i].k]

RecordTitles(k, d) == Range(TitleSeq(k, d))

\* The titles of the records in the backing file, in order.
FileTitleSeq(k, f) ==
    IF k = "csv"
    THEN [i \in 1..Len(f.rows) |-> PyStr(f.rows[i][1])]
    ELSE [i \in 1..Len(f) |-> PyStr(f[i].k)]

\* The records of d whose title is not title, in order.
Without(k, d, title) ==
    SelectSeq(d, LAMBDA m : (IF k = "csv" THEN m.title ELSE m.k) # title)

\* A fresh instance constructed from the backing file.
Fresh(k, f) == IF k = "csv" THEN CsvFileRead(f) ELSE JsonLoad(f)

PosterKey(k) == IF k = "csv" THEN "poster" ELSE "image-url"

AddedStatus(k, title) ==
    PyStr(title.v \o (IF k = "csv" THEN CSV_ADDED ELSE JSON_ADDED))

AlreadyExistsStatus == PyStr(MOVIE_ALREADY_EXISTS)

DeletedStatus(title) == PyStr(title.v \o DELETED)

NotInDatabaseStatus(title) == PyStr(title.v \o NOT_IN_DATABASE)

\* dict == dict: same keys, same value per key, whatever the order.
DictEq(a, b) ==
    /\ DictKeys(a) = DictKeys(b)
    /\ \A key \in DictKeys(a) : DictGet(a, key) = DictGet(b, key)

\* Two list_movies() results compare equal.
SameListing(a, b) ==
    /\ a.type = b.type
    /\ IF a.type = "dict" THEN DictEq(a.v, b.v) ELSE a.v = b.v

\* ------------------------------------------------------------------ claims
\* C1: in both stores, whenever add_movie(t, y, r, p) returned its success
\* status, list_movies() is a mapping that has key t with year y, rating r
\* and poster reference p ('poster' in the CSV store, 'image-url' in the
\* JSON store).
C1_AddedMovieIsListed ==
    (ret.op = "add_movie" /\ ret.result = AddedStatus(kind, ret.args[1])) =>
        LET listing == ListMovies(kind, data[ret.inst])
        IN  /\ listing.type = "dict"
            /\ ret.args[1] \in DictKeys(listing.v)
            /\ LET movie == DictGet(listing.v, ret.args[1])
               IN  /\ movie["year"] = ret.args[2]
                   /\ movie["rating"] = ret.args[3]
                   /\ movie[PosterKey(kind)] = ret.args[4]

\* An add of an int year succeeded on a CSV store that already held a record.
C1_Witness ==
    /\ kind = "csv"
    /\ ret.op = "add_movie"
    /\ ret.result = AddedStatus(kind, ret.args[1])
    /\ ret.args[2].type = "int"
    /\ Len(data[ret.inst]) = 2

\* C2: in both stores, add_movie(t, ...) when a record titled exactly t
\* exists returns the failure status and leaves the in-memory records and
\* the backing file as they were.
C2_DuplicateAddChangesNothing ==
    [][(ret'.op = "add_movie"
          /\ ret'.args[1] \in RecordTitles(kind, data[ret'.inst]))
        => (/\ ret'.result = AlreadyExistsStatus
            /\ data' = data
            /\ file' = file)]_vars

\* A duplicate add was refused for a title the store holds.
C2_Witness ==
    /\ ret.op = "add_movie"
    /\ ret.result = AlreadyExistsStatus
    /\ ret.args[1] \in RecordTitles(kind, data[ret.inst])
    /\ kind = "json"

\* C3: in both stores, delete_movie(t) when a record titled exactly t exists
\* removes that record and no other: the record titled t is gone, one record
\* fewer is held, and every other record is as it was, also when another
\* title differs from t only by letter case.
C3_DeleteRemovesExactlyThatRecord ==
    [][(ret'.op = "delete_movie"
          /\ ret'.args[1] \in RecordTitles(kind, data[ret'.inst]))
        => (/\ data'[ret'.inst] = Without(kind, data[ret'.inst], ret'.args[1])
            /\ Len(data'[ret'.inst]) = Len(data[ret'.inst]) - 1)]_vars

\* C4: in both stores, delete_movie(t) when no record is titled exactly t
\* returns the not-found status and leaves the records and the backing file
\* as they were.
C4_DeleteAbsentChangesNothing ==
    [][(ret'.op = "delete_movie"
          /\ ret'.args[1] \notin RecordTitles(kind, data[ret'.inst]))
        => (/\ ret'.result = NotInDatabaseStatus(ret'.args[1])
            /\ data' = data
            /\ file' = file)]_vars

\* C5: in both stores, at every operation boundary a fresh instance
\* constructed from the backing file lists the same movies, with the same
\* field values, as the live instance.
C5_FreshInstanceListsTheSame ==
    \A i \in DOMAIN data :
        SameListing(ListMovies(kind, Fresh(kind, file)),
                    ListMovies(kind, data[i]))

\* update_movie(title, ...) has a record to match in d: a record titled
\* exactly title in the CSV store, a record whose title equals title ignoring
\* case in the JSON store.
UpdateMatches(k, d, title) ==
    IF k = "csv"
    THEN title \in RecordTitles(k, d)
    ELSE \E i \in 1..Len(d) : Lower(d[i].k) = Lower(title)

UpdateNotFoundStatus(k, title) ==
    IF k = "csv" THEN PyStr(title.v \o CSV_NOT_EXIST) ELSE PyStr(JSON_NOT_UPDATED)

\* C6: in both stores, update_movie(t, note) when no record matches t returns
\* the not-found status and changes neither the records in memory nor the
\* content of the backing file; and in the CSV store update_movie returns the
\* 'has been updated' status exactly when a record titled exactly t exists.
C6_UpdateAbsentChangesNothing ==
    [][(ret'.op = "update_movie") =>
        /\ ~UpdateMatches(kind, data[ret'.inst], ret'.args[1]) =>
              /\ ret'.result = UpdateNotFoundStatus(kind, ret'.args[1])
              /\ data' = data
              /\ file' = file
        /\ kind = "csv" =>
              ((ret'.result = PyStr(ret'.args[1].v \o CSV_UPDATED))
                 <=> ret'.args[1] \in RecordTitles(kind, data[ret'.inst]))]_vars

\* An update of an absent title was refused on a CSV store holding records,
\* one of them with a title that differs from it only by case.
C6_Witness ==
    /\ kind = "csv"
    /\ ret.op = "update_movie"
    /\ ret.result = UpdateNotFoundStatus(kind, ret.args[1])
    /\ \E i \in 1..Len(data[ret.inst]) :
          /\ data[ret.inst][i].title # ret.args[1]
          /\ Lower(data[ret.inst][i].title) = Lower(ret.args[1])

\* The records of d that update_movie(title, ...) of the JSON store can
\* annotate: title equal ignoring case, and an 'image-url' field.
Annotatable(d, title) ==
    {i \in 1..Len(d) :
        Lower(d[i].k) = Lower(title) /\ "image-url" \in DOMAIN d[i].val}

\* update_movie of the JSON store returned its success status.
JsonUpdateSucceeded(r) ==
    /\ r.op = "update_movie"
    /\ \E title \in Titles :
          r.result = PyStr(JSON_NOTE_PREFIX \o title.v \o JSON_NOTE_SUFFIX)

\* C7: in the JSON store, update_movie(t, note) succeeds exactly when some
\* record whose title equals t ignoring case has an 'image-url' field; on
\* success one record, such a record, gets note as its 'note', its other
\* fields and all other records stay as they were and the document is
\* written to the file; otherwise records and file are untouched and the
\* combined status is returned.  In particular when the only record matching
\* t ignoring case has an 'image-url' (as after add_movie("Inception", ...)
\* and update_movie("inception", "great")), that record's note is note.
C7_JsonUpdate ==
    [][(kind = "json" /\ ret'.op = "update_movie") =>
        LET d == data[ret'.inst]
            e == data'[ret'.inst]
            title == ret'.args[1]
        IN  /\ JsonUpdateSucceeded(ret') <=> Annotatable(d, title) # {}
            /\ JsonUpdateSucceeded(ret') =>
                  /\ \E i \in Annotatable(d, title) :
                        /\ e = [d EXCEPT ![i] =
                                   [k |-> d[i].k,
                                    val |-> SetField(d[i].val, "note", ret'.args[2])]]
                        /\ e[i].val["note"] = ret'.args[2]
                        /\ \A name \in DOMAIN d[i].val \ {"note"} :
                              e[i].val[name] = d[i].val[name]
                  /\ file' = JsonDump(e)
                  /\ JsonLoad(file') = e
            /\ ~JsonUpdateSucceeded(ret') =>
                  /\ ret'.result = PyStr(JSON_NOT_UPDATED)
                  /\ data' = data
                  /\ file' = file
            /\ \A i \in 1..Len(d) :
                  ({j \in 1..Len(d) : Lower(d[j].k) = Lower(title)} = {i}
                     /\ "image-url" \in DOMAIN d[i].val)
                  => /\ JsonUpdateSucceeded(ret')
                     /\ DictGet(StorageJson_list_movies(e).v, d[i].k)["note"]
                           = ret'.args[2]]_vars

\* update_movie("up", "great") succeeded on the record "Up" of a store that
\* holds another record and no record "up".
C7_Witness ==
    /\ kind = "json"
    /\ JsonUpdateSucceeded(ret)
    /\ ret.args[1] = T_up
    /\ Len(data[ret.inst]) = 2
    /\ T_Up \in DictKeys(data[ret.inst])
    /\ T_up \notin DictKeys(data[ret.inst])
    /\ DictGet(data[ret.inst], T_Up)["note"] = ret.args[2]

\* C8: in the CSV store, list_movies() is the text "Empty Database..." exactly
\* when self.data holds no record, and otherwise a mapping with one entry per
\* title whose value has exactly the keys year, rating and poster: no value
\* has a notes field, whatever updates have set.
C8_CsvListing ==
    kind = "csv" =>
        \A i \in DOMAIN data :
            LET listing == StorageCsv_list_movies(data[i])
            IN  /\ (listing.type = "str") <=> (Len(data[i]) = 0)
                /\ listing.type = "str" => listing = PyStr(EMPTY_DATABASE)
                /\ listing.type # "str" =>
                      /\ listing.type = "dict"
                      /\ DictKeys(listing.v) = RecordTitles(kind, data[i])
                      /\ Len(listing.v) = Cardinality(RecordTitles(kind, data[i]))
                      /\ \A n \in 1..Len(listing.v) :
                            DOMAIN listing.v[n].val = {"year", "rating", "poster"}

\* An update has just set the note of a record of a CSV store.
C8_Witness ==
    /\ kind = "csv"
    /\ ret.op = "update_movie"
    /\ ret.result = PyStr(ret.args[1].v \o CSV_UPDATED)
    /\ \E n \in 1..Len(data[ret.inst]) :
          /\ data[ret.inst][n].title = ret.args[1]
          /\ "notes" \in DOMAIN data[ret.inst][n]
          /\ data[ret.inst][n].notes = ret.args[2]

\* delete_movie(title) found no record to delete.
DeleteFoundNothing(r) ==
    r.op = "delete_movie" /\ r.result # DeletedStatus(r.args[1])

\* C9 as stated: in both stores the status of a successful add, of a
\* duplicate add (an add of a title the store holds) and of a delete of an
\* absent title contains the title passed in.
C9_StatusNamesTitle ==
    (\/ ret.op = "add_movie" /\ ret.args[1] \in RecordTitles(kind, data[ret.inst])
     \/ DeleteFoundNothing(ret))
    => IsSubstring(ret.args[1].v, ret.result.v)

\* C9 as amended: in both stores the status of a successful add and of a
\* delete of an absent title contains the title passed in, and the status of
\* a duplicate add is the text "Movie already exists", whatever the title.
C9_StatusOfAddAndDelete ==
    [][/\ ret'.op = "add_movie" =>
            /\ ret'.args[1] \in RecordTitles(kind, data[ret'.inst])
                  => ret'.result = AlreadyExistsStatus
            /\ ret'.result # AlreadyExistsStatus =>
                  /\ ret'.result = AddedStatus(kind, ret'.args[1])
                  /\ IsSubstring(ret'.args[1].v, ret'.result.v)
       /\ (ret'.op = "delete_movie"
             /\ ret'.args[1] \notin RecordTitles(kind, data[ret'.inst]))
            => IsSubstring(ret'.args[1].v, ret'.result.v)]_vars

\* add_movie("Up", ...) was refused on a JSON store that holds "Up": the
\* status does not contain "Up".
C9_Witness ==
    /\ kind = "json"
    /\ ret.op = "add_movie"
    /\ ret.args[1] = T_Up
    /\ T_Up \in DictKeys(data[ret.inst])
    /\ ret.result = AlreadyExistsStatus
    /\ ~IsSubstring(T_Up.v, ret.result.v)

\* No two elements of the sequence s are equal.
Distinct(s) == \A i, j \in 1..Len(s) : i # j => s[i] # s[j]

\* C10: in both stores, started from a file in which no two records share a
\* title, no two records in memory and no two records of the backing file
\* ever have the same title.
C10_TitlesUnique ==
    /\ \A i \in DOMAIN data : Distinct(TitleSeq(kind, data[i]))
    /\ Distinct(FileTitleSeq(kind, file))

\* A CSV store holds records after an add was refused as a duplicate.
C10_Witness ==
    /\ kind = "csv"
    /\ ret.op = "add_movie"
    /\ ret.result = AlreadyExistsStatus
    /\ ret.args[1] \in RecordTitles(kind, data[ret.inst])
    /\ Len(data[ret.inst]) = MaxMovies

\* C11: in both stores and for every title t, the empty title and "Empty"
\* included, add_movie(t, y, r, p) on a store that holds no record titled
\* exactly t (an empty store in particular) inserts the record after the
\* others, rewrites the backing file and returns the success status; the
\* duplicate failure is returned only when a record titled exactly t exists.
C11_AddOfAbsentTitleSucceeds ==
    [][(ret'.op = "add_movie"
          /\ ret'.args[1] \notin RecordTitles(kind, data[ret'.inst]))
        => (/\ ret'.result = AddedStatus(kind, ret'.args[1])
            /\ ret'.result # AlreadyExistsStatus
            /\ Len(data'[ret'.inst]) = Len(data[ret'.inst]) + 1
            /\ SubSeq(data'[ret'.inst], 1, Len(data[ret'.inst])) = data[ret'.inst]
            /\ TitleSeq(kind, data'[ret'.inst])[Len(data'[ret'.inst])] = ret'.args[1]
            /\ Fresh(kind, file') # Fresh(kind, file))]_vars

\* ------------------------------------------- two instances on one file path
\* Two instances of the same store class constructed from the same backing
\* file; their calls interleave, each call running to completion.  Every
\* instance holds at most MaxShared records.
InitTwo ==
    /\ InitWith({"A", "B"})
    /\ \A i \in DOMAIN data : Len(data[i]) <= MaxShared

\* The calls the two instances make: titles "Up", "up" and "Empty", the
\* menu's argument types, and no instance grows beyond MaxShared records.
SharedCall ==
    /\ \A i \in DOMAIN data : Len(data[i]) <= MaxShared
    /\ ret.args[1] \in {T_Up, T_up, T_Empty}
    /\ ret.op = "add_movie" => SubSeq(ret.args, 2, 4) = Payload1

NextTwo ==
    \/ \E i \in DOMAIN data : CsvAdd(i) /\ SharedCall'
    \/ \E i \in DOMAIN data : CsvDelete(i) /\ SharedCall'
    \/ \E i \in DOMAIN data : CsvUpdate(i) /\ SharedCall'
    \/ \E i \in DOMAIN data : JsonAdd(i) /\ SharedCall'
    \/ \E i \in DOMAIN data : JsonDelete(i) /\ SharedCall'
    \/ \E i \in DOMAIN data : JsonUpdate(i) /\ SharedCall'

SpecTwo == InitTwo /\ [][NextTwo]_vars

\* What an instance of class k holding d writes to the backing file.
Written(k, d) == IF k = "csv" THEN CsvFileWrite(d) ELSE JsonDump(d)

\* The outcome of every call instance i can make is the outcome the same
\* call has when the file holds exactly the records of i: no call reads the
\* file, so no call can notice what another instance wrote.
BlindToFile(i) ==
    LET d == data[i]
        own == Written(kind, d)
        Same(a, b) == a.data = b.data /\ a.result = b.result
    IN  \A title \in Titles :
            /\ \A p \in Payloads :
                  IF kind = "csv"
                  THEN Same(StorageCsv_add_movie(d, file, title, p[1], p[2], p[3]),
                            StorageCsv_add_movie(d, own, title, p[1], p[2], p[3]))
                  ELSE Same(StorageJson_add_movie(d, file, title, p[1], p[2], p[3]),
                            StorageJson_add_movie(d, own, title, p[1], p[2], p[3]))
            /\ IF kind = "csv"
               THEN Same(StorageCsv_delete_movie(d, file, title),
                         StorageCsv_delete_movie(d, own, title))
               ELSE Same(StorageJson_delete_movie(d, file, title),
                         StorageJson_delete_movie(d, own, title))
            /\ \A notes \in Notes :
                  IF kind = "csv"
                  THEN Same(StorageCsv_update_movie(d, file, title, notes),
                            StorageCsv_update_movie(d, own, title, notes))
                  ELSE Same(StorageJson_update_movie(d, file, title, notes),
                            StorageJson_update_movie(d, own, title, notes))

\* C12: with two instances of one store class on one backing file, the file
\* always holds exactly the records of the instance that wrote last (and, as
\* long as none has written, the records every instance loaded), whatever
\* the other instance has added with success; and no call of either instance
\* depends on the file content, so none detects or reports a lost write.
C12_FileIsLastWritersRecords ==
    /\ writer # "-" => file = Written(kind, data[writer])
    /\ writer = "-" => \A i \in DOMAIN data : data[i] = Fresh(kind, file)
    /\ \A i \in DOMAIN data : BlindToFile(i)

\* A lost update: instance A holds "Empty", a title no initial file has, so
\* A's add_movie("Empty", ...) returned success and wrote it to the file;
\* instance B, which never saw it, has since added another title with
\* success, and the file B rewrote has no record "Empty".
C12_Witness ==
    /\ DOMAIN data = {"A", "B"}
    /\ T_Empty \in RecordTitles(kind, data["A"])
    /\ T_Empty \notin RecordTitles(kind, data["B"])
    /\ T_Empty \notin Range(FileTitleSeq(kind, file))
    /\ writer = "B"
    /\ ret.inst = "B"
    /\ ret.op = "add_movie"
    /\ ret.result = AddedStatus(kind, ret.args[1])
    /\ ret.args[1] \in Range(FileTitleSeq(kind, file))

\* C13: over either store, when the store holds no movies
\* _command_list_movies() returns an empty list and execute_command("1")
\* returns "No movies in the database." without raising, also for the CSV
\* store and also after the last movie was deleted.
C13_EmptyStoreListsNoMovies ==
    (ret.op = "execute_command" /\ Len(data[ret.inst]) = 0) =>
        /\ MovieApp_command_list_movies(ListMovies(kind, data[ret.inst]))
              = [type |-> "list", v |-> <<>>]
        /\ ret.result = PyStr(NO_MOVIES)
====
